---- MODULE Spec2Model ----
(***************************************************************************)
(* Incremental download reconciliation and relationship caching of         *)
(* pybis_common.py: _should_skip_file, _download_dataset and the           *)
(* children/parents lookups with their time-expiring cache.                *)
(*                                                                         *)
(* Three specifications share the module:                                  *)
(*   SpecSkip  the decision function _should_skip_file on bounded inputs   *)
(*   Spec      one run after another of _download_dataset                  *)
(*   SpecRel   relationship lookups against the module-level cache         *)
(***************************************************************************)
EXTENDS Integers, Sequences, FiniteSets, TLC

\* ------------------------------------------------------------------------
\* Bounds
\* ------------------------------------------------------------------------
\* largest file size in bytes
MaxSize == 1
\* largest modification time (seconds since the epoch)
MaxTime == 2
\* largest number of entries in a dataset's manifest
MaxFiles == 2
\* largest number of successive calls of _download_dataset, and of datasets
\* in a collection
MaxRuns == 2
\* largest number of related datasets a query returns
MaxRel == 1
\* largest number of relationship lookups in one process
MaxLookups == 3
\* largest number of advances of the clock, each of half an expiry window
MaxTicks == 2

\* ------------------------------------------------------------------------
\* Python values
\* ------------------------------------------------------------------------
\* None where a string is expected (checksum, crc32, digest)
None == "None"
\* None where a byte count is expected (fileLength)
NoSize == 0 - 1

Sizes == 0..MaxSize
Times == 0..MaxTime

\* hexdigest() yields lower-case text; a remote checksum may be upper-case
LocalDigests == {"ab", "cd"}
RemoteChecksums == {None, "", "ab", "AB", "cd"}
RemoteCrcs == {None, "ab", "cd"}

\* str.lower() on the checksum texts of the model
Lower(s) == IF s = "AB" THEN "ab" ELSE IF s = "CD" THEN "cd" ELSE s

\* truthiness of an optional string: None and "" are falsy
TruthyStr(s) == s # None /\ s # ""

\* remote_file_info.modificationDate: absent, a string, a number, an object
\* with a timestamp() method, or an object that cannot be ordered against a
\* float (the comparison raises TypeError)
MDate(k, t) == [kind |-> k, t |-> t]
NoDate == MDate("none", 0)
StrDate == MDate("str", 0)
ObjDate == MDate("obj", 0)
\* a string carries the time it spells out (t), which the code never parses
ModificationDates ==
    {NoDate, StrDate, ObjDate}
        \cup {MDate("str", t) : t \in Times}
        \cup {MDate("num", t) : t \in Times}
        \cup {MDate("ts", t) : t \in Times}

\* remote_file_info as read by the getattr calls of _should_skip_file
RemoteFileInfos ==
    [fileLength : {NoSize} \cup Sizes,
     modificationDate : ModificationDates,
     checksum : RemoteChecksums,
     crc32 : RemoteCrcs]

\* What the filesystem holds at local_file_path.  kind "absent": exists() is
\* False; "file": a regular file; "error": exists() raises (for instance
\* PermissionError on a parent directory).  digest is the SHA-1 of the
\* content, or None when the file cannot be read.
LFile(k, s, m, d) == [kind |-> k, size |-> s, mtime |-> m, digest |-> d]
Absent == LFile("absent", 0, 0, None)
StatError == LFile("error", 0, 0, None)
LocalFiles ==
    {Absent, StatError}
        \cup {LFile("file", s, m, d) :
                s \in Sizes, m \in Times, d \in LocalDigests \cup {None}}

\* ------------------------------------------------------------------------
\* _compute_file_checksum and _should_skip_file
\* ------------------------------------------------------------------------
\* a digest function that hands back the error text when reading raised
compute_file_checksum_error_text(local) ==
    IF local.digest = None THEN "IOError" ELSE local.digest

\* the hex digest, or None when reading the file raised
compute_file_checksum(local) == local.digest

\* a (should_skip, reason) pair, or a raised exception
Ret(skip, reason, detail) ==
    [kind |-> "return", skip |-> skip, reason |-> reason, detail |-> detail]
Raised == [kind |-> "raise", skip |-> FALSE, reason |-> "", detail |-> <<>>]

\* a time check that parses a string date and compares it like a number
MtimeSkips_parsing(local, remote) ==
    LET d == remote.modificationDate
        rm == IF d.kind \in {"ts", "str"} THEN MDate("num", d.t)
              ELSE d
    IN  /\ d.kind # "none"
        /\ rm.kind = "num"
        /\ rm.t # 0
        /\ local.mtime >= rm.t

\* lines 1312-1327: TRUE when the modification-time check returns skip
MtimeSkips(local, remote) ==
    LET d == remote.modificationDate
        \* remote_mtime after the conversion of lines 1317-1321
        rm == IF d.kind = "ts" THEN MDate("num", d.t)
              ELSE IF d.kind = "str" THEN NoDate
              ELSE d
    IN  /\ d.kind # "none"
        /\ rm.kind = "num"
        /\ rm.t # 0
        /\ local.mtime >= rm.t

\* lines 1331: checksum or crc32
RemoteChecksum(remote) ==
    IF TruthyStr(remote.checksum) THEN remote.checksum ELSE remote.crc32

\* lines 1329-1343: the optional checksum validation and the default
checksum_decision_swapped(local, remote, verify) ==
    LET remote_checksum == RemoteChecksum(remote)
        local_checksum == compute_file_checksum(local)
    IN  IF verify /\ TruthyStr(remote_checksum) /\ TruthyStr(local_checksum)
        THEN Ret(TRUE, "Checksum verified", <<>>)
        ELSE IF remote.fileLength = NoSize \/ local.size = remote.fileLength
        THEN Ret(TRUE, "File exists with matching size", <<>>)
        ELSE Ret(FALSE, "Unknown verification failure", <<>>)

checksum_decision(local, remote, verify) ==
    LET remote_checksum == RemoteChecksum(remote)
        local_checksum == compute_file_checksum(local)
        checked == /\ verify
                   /\ TruthyStr(remote_checksum)
                   /\ TruthyStr(local_checksum)
    IN  IF checked /\ Lower(local_checksum) # Lower(remote_checksum)
        THEN Ret(FALSE, "Checksum mismatch", <<>>)
        ELSE IF checked
        THEN Ret(TRUE, "Checksum verified", <<>>)
        ELSE IF remote.fileLength = NoSize \/ local.size = remote.fileLength
        THEN Ret(TRUE, "File exists with matching size", <<>>)
        ELSE Ret(FALSE, "Unknown verification failure", <<>>)

\* lines 1304-1343: the decision for a file that exists
existing_file_decision_smaller(local, remote, verify) ==
    IF remote.fileLength # NoSize /\ local.size < remote.fileLength
    THEN Ret(FALSE, "Size mismatch", <<local.size, remote.fileLength>>)
    ELSE IF MtimeSkips(local, remote)
    THEN Ret(TRUE, "Local file is newer or same age", <<>>)
    ELSE checksum_decision(local, remote, verify)

existing_file_decision(local, remote, verify) ==
    IF remote.fileLength # NoSize /\ local.size # remote.fileLength
    THEN Ret(FALSE, "Size mismatch", <<local.size, remote.fileLength>>)
    ELSE IF MtimeSkips(local, remote)
    THEN Ret(TRUE, "Local file is newer or same age", <<>>)
    ELSE checksum_decision(local, remote, verify)

\* lines 1299-1343
should_skip_file_unchecked(local, remote, verify) ==
    IF local.kind = "error" THEN Raised
    ELSE existing_file_decision(local, remote, verify)

should_skip_file(local, remote, verify) ==
    IF local.kind = "error" THEN Raised
    ELSE IF local.kind = "absent"
    THEN Ret(FALSE, "File does not exist locally", <<>>)
    ELSE existing_file_decision(local, remote, verify)

\* ------------------------------------------------------------------------
\* State
\* ------------------------------------------------------------------------
VARIABLES
    \* -- SpecSkip: one call of _should_skip_file
    skip_local,         \* filesystem state at local_file_path
    skip_remote,        \* remote_file_info
    skip_verify,        \* verify_checksum
    skip_result,        \* what the call returned, "pending" before it
    skip_again,         \* what a second call on the same arguments returned
    \* -- Spec: _download_dataset
    dataset_files,      \* the files of the remote dataset (environment)
    disk,               \* local file state under output_path, by path
    pc,                 \* position inside _download_dataset
    dataset,            \* what o.get_dataset gave: "found" or "missing"
    force,              \* parameter force
    verify_checksum,    \* parameter verify_checksum
    files,              \* value returned by dataset.get_files
    idx,                \* position of the analysis loop in files
    skip_count,
    download_count,
    files_to_download,
    classified,         \* decision taken for each manifest entry so far
    analysis_failed,    \* the except branch of line 1416 was taken
    get_files_calls,    \* calls of dataset.get_files in this run
    should_skip_calls,  \* calls of _should_skip_file in this run
    transfer_calls,     \* requests passed to dataset.download in this run
    result,             \* return value of _download_dataset
    runs                \* completed calls of _download_dataset

skipVars == <<skip_local, skip_remote, skip_verify, skip_result, skip_again>>
dlVars == <<dataset_files, disk, pc, dataset, force, verify_checksum, files, idx,
            skip_count, download_count, files_to_download, classified,
            analysis_failed, get_files_calls, should_skip_calls,
            transfer_calls, result, runs>>

VARIABLES
    \* -- SpecRel: _search_dataset_children / _search_dataset_parents
    codes,              \* the dataset codes this process looks up
    result_format,      \* what the client's queries return: "df" or "list"
    relationship_cache, \* _relationship_cache: cache_key -> records
    cache_timestamps,   \* _cache_timestamps: cache_key -> time.time()
    now,                \* time.time(), in seconds
    ticks,              \* advances of the clock so far
    lookups,            \* lookups started so far
    rel_pc,             \* position inside the lookup
    relation,           \* "children" or "parents": which function runs
    dataset_code,       \* parameter dataset_code
    cache_key,
    client_calls,       \* calls made on the client o in this lookup
    fallback_found,     \* what get_children/get_parents gave the fallback
    lookup_result,      \* return value of the lookup
    primary_result,     \* local children / parents: what the query returned
    fallback_raised,    \* the fallback ended in its except branch
    put_log             \* per key, the latest _set_relationship_cache call:
                        \* its data, its time, what its caller returned,
                        \* and the data it replaced

relVars == <<codes, result_format, relationship_cache, cache_timestamps, now, ticks, lookups,
             rel_pc, relation, dataset_code, cache_key, client_calls,
             fallback_found, lookup_result, primary_result, fallback_raised,
             put_log>>

VARIABLES
    \* -- SpecColl: _download_collection_datasets
    coll_pc,            \* "idle", "loop", "returned_early" or "returned"
    limit,              \* parameter limit (NoLimit for None)
    coll_force,         \* parameter force
    coll_verify,        \* parameter verify_checksum
    datasets_to_download, \* the codes selected, in the order of the client
    attempted,          \* codes passed to _download_dataset so far
    success_count,
    failed_count,
    coll_result         \* return value of _download_collection_datasets

collVars == <<coll_pc, limit, coll_force, coll_verify, datasets_to_download,
              attempted, success_count, failed_count, coll_result>>
vars == <<skipVars, dlVars, relVars, collVars>>

\* ------------------------------------------------------------------------
\* SpecSkip: _should_skip_file applied to every bounded input
\* ------------------------------------------------------------------------
Pending == [kind |-> "pending", skip |-> FALSE, reason |-> "", detail |-> <<>>]

\* a call that leaves the file it has read with a fresh modification time
ShouldSkipFile_touching ==
    /\ skip_result = Pending
    /\ skip_result' = should_skip_file(skip_local, skip_remote, skip_verify)
    /\ skip_local' = IF skip_local.kind = "file"
                     THEN [skip_local EXCEPT !.mtime = MaxTime]
                     ELSE skip_local
    /\ UNCHANGED <<skip_remote, skip_verify, skip_again>>
    /\ UNCHANGED <<dlVars, relVars, collVars>>

\* the call _should_skip_file(local_file_path, remote_file_info, verify)
ShouldSkipFile ==
    /\ skip_result = Pending
    /\ skip_result' = should_skip_file(skip_local, skip_remote, skip_verify)
    /\ UNCHANGED <<skip_local, skip_remote, skip_verify, skip_again>>
    /\ UNCHANGED <<dlVars, relVars, collVars>>

\* the same call once more, on what the first call left behind
ShouldSkipFileAgain ==
    /\ skip_result # Pending
    /\ skip_again = Pending
    /\ skip_again' = should_skip_file(skip_local, skip_remote, skip_verify)
    /\ UNCHANGED <<skip_local, skip_remote, skip_verify, skip_result>>
    /\ UNCHANGED <<dlVars, relVars, collVars>>

\* ------------------------------------------------------------------------
\* Spec: _download_dataset
\* ------------------------------------------------------------------------
\* pathInDataSet is a sequence of path components; a leading "/" component
\* is what file_path.lstrip('/') removes; <<>> is the empty string
FileNames == <<"a.txt", "b.txt", "c.txt", "d.txt">>
LocalPaths == {<<FileNames[i]>> : i \in 1..MaxFiles}

RECURSIVE lstrip(_)
lstrip(path) ==
    IF path # <<>> /\ Head(path) = "/" THEN lstrip(Tail(path)) ELSE path

\* descriptors and local states the download runs are started with
Info(l, d, c) ==
    [fileLength |-> l, modificationDate |-> d, checksum |-> c, crc32 |-> None]
DlRemotes ==
    {Info(1, NoDate, None), Info(0, NoDate, None),
     Info(1, MDate("num", 1), "cd"), Info(NoSize, NoDate, "cd")}
DlLocals == {Absent, StatError, LFile("file", 1, 1, "ab")}

Row(path, info) == [pathInDataSet |-> path, info |-> info]

\* manifests of n rows: row i names file i, with or without a leading "/",
\* or carries an empty pathInDataSet (the listing's folder rows)
RowsAt(i, slash) ==
    {Row(IF slash THEN <<"/", FileNames[i]>> ELSE <<FileNames[i]>>, r) :
        r \in DlRemotes}
        \cup {Row(<<>>, Info(NoSize, NoDate, None))}
AllRows(slash) == UNION {RowsAt(i, slash) : i \in 1..MaxFiles}
Manifests ==
    UNION {{m \in [1..n -> AllRows(slash)] :
                \A i \in 1..n : m[i] \in RowsAt(i, slash)} :
           n \in 0..MaxFiles, slash \in BOOLEAN}

\* files_to_download is None or a list of pathInDataSet values
FilesNone == [none |-> TRUE, list |-> <<>>]
FilesList(l) == [none |-> FALSE, list |-> l]

\* the request of lines 1426-1431: both branches call
\* dataset.download(destination=str(output_path)) with no file selection, so
\* the client is asked for every file of the dataset
download_request(ftd) == [whole |-> TRUE, files |-> <<>>]

\* the paths of the dataset a request covers
Covered(req) ==
    IF req.whole
    THEN {lstrip(dataset_files[i].pathInDataSet) : i \in DOMAIN dataset_files}
            \ {<<>>}
    ELSE {lstrip(req.files[i]) : i \in DOMAIN req.files}

\* regular files found by output_path.rglob('*') (lines 1434-1435)
file_count(d) == Cardinality({p \in DOMAIN d : d[p].kind = "file"})

runReset ==
    /\ files' = [fmt |-> "list", rows |-> <<>>]
    /\ idx' = 0
    /\ skip_count' = 0
    /\ download_count' = 0
    /\ classified' = <<>>
    /\ analysis_failed' = FALSE
    /\ get_files_calls' = 0
    /\ should_skip_calls' = 0
    /\ transfer_calls' = <<>>

Call_Found_ignoring_force ==
    /\ pc = "idle"
    /\ \E f \in BOOLEAN, v \in BOOLEAN :
        /\ force' = f
        /\ verify_checksum' = v
        /\ files_to_download' = FilesList(<<>>)
        /\ pc' = "get_files"
    /\ dataset' = "found"
    /\ result' = "running"
    /\ runReset
    /\ UNCHANGED <<dataset_files, disk, runs>>
    /\ UNCHANGED <<skipVars, relVars, collVars>>

\* lines 1349-1370, 1420-1422: the dataset is found and output_path created
Call_Found ==
    /\ pc = "idle"
    /\ \E f \in BOOLEAN, v \in BOOLEAN :
        /\ force' = f
        /\ verify_checksum' = v
        /\ files_to_download' = IF f THEN FilesNone ELSE FilesList(<<>>)
        /\ pc' = IF f THEN "download" ELSE "get_files"
    /\ dataset' = "found"
    /\ result' = "running"
    /\ runReset
    /\ UNCHANGED <<dataset_files, disk, runs>>
    /\ UNCHANGED <<skipVars, relVars, collVars>>

\* lines 1352-1356, 1365, 1459-1461: get_dataset returns None or raises, or
\* mkdir raises: return False
Call_NotFound ==
    /\ pc = "idle"
    /\ \E f \in BOOLEAN, v \in BOOLEAN :
        /\ force' = f
        /\ verify_checksum' = v
    /\ files_to_download' = FilesList(<<>>)
    /\ dataset' = "missing"
    /\ pc' = "done"
    /\ result' = "False"
    /\ runReset
    /\ UNCHANGED <<dataset_files, disk, runs>>
    /\ UNCHANGED <<skipVars, relVars, collVars>>

GetFiles_Raise_fails ==
    /\ pc = "get_files"
    /\ get_files_calls' = get_files_calls + 1
    /\ analysis_failed' = TRUE
    /\ result' = "False"
    /\ pc' = "done"
    /\ UNCHANGED <<dataset_files, disk, dataset, force, verify_checksum,
                   files, idx, skip_count, download_count, files_to_download,
                   classified, should_skip_calls, transfer_calls, runs>>
    /\ UNCHANGED <<skipVars, relVars, collVars>>

\* line 1374 raises: lines 1416-1419
GetFiles_Raise ==
    /\ pc = "get_files"
    /\ get_files_calls' = get_files_calls + 1
    /\ analysis_failed' = TRUE
    /\ files_to_download' = FilesNone
    /\ pc' = "download"
    /\ UNCHANGED <<dataset_files, disk, dataset, force, verify_checksum, files, idx,
                   skip_count, download_count, classified,
                   should_skip_calls, transfer_calls, result, runs>>
    /\ UNCHANGED <<skipVars, relVars, collVars>>

\* lines 1374-1378: the manifest as a DataFrame or as a list; rows with an
\* empty path are enumerated in the DataFrame listing only
GetFiles_Return ==
    /\ pc = "get_files"
    /\ get_files_calls' = get_files_calls + 1
    /\ \E fmt \in {"df", "list"} :
        /\ fmt = "list" =>
              \A i \in DOMAIN dataset_files :
                  dataset_files[i].pathInDataSet # <<>>
        /\ files' = [fmt |-> fmt, rows |-> dataset_files]
    /\ idx' = 1
    /\ skip_count' = 0
    /\ download_count' = 0
    /\ files_to_download' = FilesList(<<>>)
    /\ pc' = "analyze"
    /\ UNCHANGED <<dataset_files, disk, dataset, force, verify_checksum, classified,
                   analysis_failed, should_skip_calls, transfer_calls,
                   result, runs>>
    /\ UNCHANGED <<skipVars, relVars, collVars>>

\* lines 1393, 1407: files_to_download.append(file_path)
append_fetch_dropped(list, file_path) == list

append_fetch(list, file_path) == Append(list, file_path)

\* a loop that counts a row without a path among the skipped files
AnalyzeFile_counting_ignored ==
    /\ pc = "analyze"
    /\ idx <= Len(files.rows)
    /\ LET file_info == files.rows[idx]
           file_path == file_info.pathInDataSet
       IN  IF files.fmt = "df" /\ file_path = <<>>
           THEN \* line 1384: a row without a path is passed over
                /\ classified' = Append(classified, "ignored")
                /\ idx' = idx + 1
                /\ skip_count' = skip_count + 1
                /\ UNCHANGED <<download_count, files_to_download,
                               analysis_failed, should_skip_calls, pc>>
           ELSE LET local_file_path == lstrip(file_path)
                    decision == should_skip_file(disk[local_file_path],
                                                 file_info.info,
                                                 verify_checksum)
                IN  /\ should_skip_calls' = should_skip_calls + 1
                    /\ IF decision.kind = "raise"
                       THEN \* lines 1416-1419
                            /\ classified' = Append(classified, "raise")
                            /\ analysis_failed' = TRUE
                            /\ files_to_download' = FilesNone
                            /\ pc' = "download"
                            /\ UNCHANGED <<idx, skip_count, download_count>>
                       ELSE IF decision.skip
                       THEN /\ classified' = Append(classified, "skip")
                            /\ skip_count' = skip_count + 1
                            /\ idx' = idx + 1
                            /\ UNCHANGED <<download_count, files_to_download,
                                           analysis_failed, pc>>
                       ELSE /\ classified' = Append(classified, "fetch")
                            /\ download_count' = download_count + 1
                            /\ files_to_download' =
                                 FilesList(append_fetch(files_to_download.list,
                                                        file_path))
                            /\ idx' = idx + 1
                            /\ UNCHANGED <<skip_count, analysis_failed, pc>>
    /\ UNCHANGED <<dataset_files, disk, dataset, force, verify_checksum, files,
                   get_files_calls, transfer_calls, result, runs>>
    /\ UNCHANGED <<skipVars, relVars, collVars>>

\* lines 1380-1408: one iteration of the analysis loop
AnalyzeFile ==
    /\ pc = "analyze"
    /\ idx <= Len(files.rows)
    /\ LET file_info == files.rows[idx]
           file_path == file_info.pathInDataSet
       IN  IF files.fmt = "df" /\ file_path = <<>>
           THEN \* line 1384: a row without a path is passed over
                /\ classified' = Append(classified, "ignored")
                /\ idx' = idx + 1
                /\ UNCHANGED <<skip_count, download_count, files_to_download,
                               analysis_failed, should_skip_calls, pc>>
           ELSE LET local_file_path == lstrip(file_path)
                    decision == should_skip_file(disk[local_file_path],
                                                 file_info.info,
                                                 verify_checksum)
                IN  /\ should_skip_calls' = should_skip_calls + 1
                    /\ IF decision.kind = "raise"
                       THEN \* lines 1416-1419
                            /\ classified' = Append(classified, "raise")
                            /\ analysis_failed' = TRUE
                            /\ files_to_download' = FilesNone
                            /\ pc' = "download"
                            /\ UNCHANGED <<idx, skip_count, download_count>>
                       ELSE IF decision.skip
                       THEN /\ classified' = Append(classified, "skip")
                            /\ skip_count' = skip_count + 1
                            /\ idx' = idx + 1
                            /\ UNCHANGED <<download_count, files_to_download,
                                           analysis_failed, pc>>
                       ELSE /\ classified' = Append(classified, "fetch")
                            /\ download_count' = download_count + 1
                            /\ files_to_download' =
                                 FilesList(append_fetch(files_to_download.list,
                                                        file_path))
                            /\ idx' = idx + 1
                            /\ UNCHANGED <<skip_count, analysis_failed, pc>>
    /\ UNCHANGED <<dataset_files, disk, dataset, force, verify_checksum, files,
                   get_files_calls, transfer_calls, result, runs>>
    /\ UNCHANGED <<skipVars, relVars, collVars>>

AnalysisComplete_always_download ==
    /\ pc = "analyze"
    /\ idx > Len(files.rows)
    /\ pc' = "download"
    /\ UNCHANGED <<dataset_files, disk, dataset, force, verify_checksum,
                   files, idx, skip_count, download_count, files_to_download,
                   classified, analysis_failed, get_files_calls,
                   should_skip_calls, transfer_calls, result, runs>>
    /\ UNCHANGED <<skipVars, relVars, collVars>>

\* lines 1410-1414: the loop is over; nothing to fetch returns True
AnalysisComplete ==
    /\ pc = "analyze"
    /\ idx > Len(files.rows)
    /\ IF download_count = 0
       THEN /\ result' = "True"
            /\ pc' = "done"
       ELSE /\ pc' = "download"
            /\ UNCHANGED result
    /\ UNCHANGED <<dataset_files, disk, dataset, force, verify_checksum, files, idx,
                   skip_count, download_count, files_to_download, classified,
                   analysis_failed, get_files_calls, should_skip_calls,
                   transfer_calls, runs>>
    /\ UNCHANGED <<skipVars, relVars, collVars>>

\* a transfer whose exception leaves _download_dataset uncaught
Download_Raise_propagates ==
    /\ pc = "download"
    /\ transfer_calls' =
         Append(transfer_calls, download_request(files_to_download))
    /\ result' = "Exception"
    /\ pc' = "done"
    /\ UNCHANGED <<dataset_files, disk, dataset, force, verify_checksum, files, idx,
                   skip_count, download_count, files_to_download, classified,
                   analysis_failed, get_files_calls, should_skip_calls, runs>>
    /\ UNCHANGED <<skipVars, relVars, collVars>>

\* lines 1424-1431, 1455-1457: dataset.download raises
Download_Raise ==
    /\ pc = "download"
    /\ transfer_calls' =
         Append(transfer_calls, download_request(files_to_download))
    /\ result' = "False"
    /\ pc' = "done"
    /\ UNCHANGED <<dataset_files, disk, dataset, force, verify_checksum, files, idx,
                   skip_count, download_count, files_to_download, classified,
                   analysis_failed, get_files_calls, should_skip_calls, runs>>
    /\ UNCHANGED <<skipVars, relVars, collVars>>

\* a file as the client writes it: the remote content, so the remote size
\* (one byte when the descriptor has none) and the digest the descriptor
\* announces, stamped with the time of the transfer, which is not older than
\* any remote modification time
Materialized(info) ==
    LFile("file",
          IF info.fileLength = NoSize THEN 1 ELSE info.fileLength,
          MaxTime,
          IF TruthyStr(info.checksum) THEN Lower(info.checksum) ELSE "ab")

\* lines 1424-1453: dataset.download returns; the client has written some
\* of the files the request covers; the result is verified against disk
Download_Return ==
    /\ pc = "download"
    /\ LET req == download_request(files_to_download)
       IN  /\ transfer_calls' = Append(transfer_calls, req)
           /\ \E written \in SUBSET Covered(req) :
                disk' = [p \in DOMAIN disk |->
                           IF p \in written
                           THEN LET i == CHOOSE j \in DOMAIN dataset_files :
                                       lstrip(dataset_files[j].pathInDataSet)
                                           = p
                                IN  Materialized(dataset_files[i].info)
                           ELSE disk[p]]
    /\ result' = IF file_count(disk') > 0 THEN "True" ELSE "False"
    /\ pc' = "done"
    /\ UNCHANGED <<dataset_files, dataset, force, verify_checksum, files, idx,
                   skip_count, download_count, files_to_download, classified,
                   analysis_failed, get_files_calls, should_skip_calls, runs>>
    /\ UNCHANGED <<skipVars, relVars, collVars>>

\* _download_dataset has returned; the next call may start
Return ==
    /\ pc = "done"
    /\ runs + 1 < MaxRuns
    /\ runs' = runs + 1
    /\ pc' = "idle"
    /\ UNCHANGED <<dataset_files, disk, dataset, force, verify_checksum, files, idx,
                   skip_count, download_count, files_to_download, classified,
                   analysis_failed, get_files_calls, should_skip_calls,
                   transfer_calls, result>>
    /\ UNCHANGED <<skipVars, relVars, collVars>>

\* ------------------------------------------------------------------------
\* SpecColl: _download_collection_datasets (lines 1777-1839)
\* ------------------------------------------------------------------------
\* limit=None
NoLimit == 0 - 1
\* the codes of a collection of n datasets, in the order the client lists
\* them: dataset i has code i
CollectionOf(n) == [i \in 1..n |-> i]
\* line 1802-1804: datasets, or datasets[:limit]
Selected(datasets, lim) ==
    IF lim = NoLimit THEN datasets
    ELSE SubSeq(datasets, 1, IF lim < Len(datasets) THEN lim
                             ELSE Len(datasets))

\* lines 1783-1787, 1789, 1837-1839: get_collection returns None or raises,
\* or get_datasets raises: return False
Coll_NotListed ==
    /\ coll_pc = "idle"
    /\ limit' \in {NoLimit} \cup (0..MaxRuns)
    /\ coll_force' \in BOOLEAN
    /\ coll_verify' \in BOOLEAN
    /\ coll_result' = "False"
    /\ coll_pc' = "returned_early"
    /\ UNCHANGED <<datasets_to_download, attempted, success_count,
                   failed_count>>
    /\ UNCHANGED <<skipVars, dlVars, relVars>>

\* lines 1789-1808: the collection lists n datasets; none: return True,
\* otherwise the selection is made and both counters start at 0
Coll_Listed ==
    /\ coll_pc = "idle"
    /\ limit' \in {NoLimit} \cup (0..MaxRuns)
    /\ coll_force' \in BOOLEAN
    /\ coll_verify' \in BOOLEAN
    /\ \E n \in 0..MaxRuns :
        IF n = 0
        THEN /\ coll_result' = "True"
             /\ coll_pc' = "returned_early"
             /\ UNCHANGED datasets_to_download
        ELSE /\ datasets_to_download' = Selected(CollectionOf(n), limit')
             /\ coll_result' = "running"
             /\ coll_pc' = "loop"
    /\ success_count' = 0
    /\ failed_count' = 0
    /\ attempted' = <<>>
    /\ UNCHANGED <<skipVars, dlVars, relVars>>

\* the next dataset of the loop, if one is left and none is in progress
NextCode ==
    IF coll_pc = "loop" /\ pc = "idle"
          /\ Len(attempted) < Len(datasets_to_download)
    THEN {datasets_to_download[Len(attempted) + 1]}
    ELSE {}

\* lines 1816, 1825 with 1349-1370, 1420-1422: the loop calls
\* _download_dataset(o, code, output_dir, force, verify_checksum); the
\* dataset is found and output_path created
Coll_Download_Found ==
    /\ \E code \in NextCode : attempted' = Append(attempted, code)
    /\ force' = coll_force
    /\ verify_checksum' = coll_verify
    /\ files_to_download' = IF coll_force THEN FilesNone ELSE FilesList(<<>>)
    /\ pc' = IF coll_force THEN "download" ELSE "get_files"
    /\ dataset' = "found"
    /\ result' = "running"
    /\ runReset
    /\ UNCHANGED <<dataset_files, disk, runs>>
    /\ UNCHANGED <<coll_pc, limit, coll_force, coll_verify,
                   datasets_to_download, success_count, failed_count,
                   coll_result>>
    /\ UNCHANGED <<skipVars, relVars>>

\* lines 1816, 1825 with 1352-1356, 1365, 1459-1461: the call in which
\* get_dataset returns None or raises, or mkdir raises
Coll_Download_NotFound ==
    /\ \E code \in NextCode : attempted' = Append(attempted, code)
    /\ force' = coll_force
    /\ verify_checksum' = coll_verify
    /\ files_to_download' = FilesList(<<>>)
    /\ dataset' = "missing"
    /\ pc' = "done"
    /\ result' = "False"
    /\ runReset
    /\ UNCHANGED <<dataset_files, disk, runs>>
    /\ UNCHANGED <<coll_pc, limit, coll_force, coll_verify,
                   datasets_to_download, success_count, failed_count,
                   coll_result>>
    /\ UNCHANGED <<skipVars, relVars>>

\* a loop that gives up at the first failed dataset
Coll_Tally_stop_on_failure ==
    /\ coll_pc = "loop"
    /\ pc = "done"
    /\ IF result = "True"
       THEN /\ success_count' = success_count + 1
            /\ UNCHANGED <<failed_count, coll_pc, coll_result>>
       ELSE /\ failed_count' = failed_count + 1
            /\ coll_pc' = "returned"
            /\ coll_result' = "False"
            /\ UNCHANGED success_count
    /\ pc' = "idle"
    /\ runs' = runs + 1
    /\ UNCHANGED <<limit, coll_force, coll_verify, datasets_to_download,
                   attempted>>
    /\ UNCHANGED <<dataset_files, disk, dataset, force, verify_checksum, files, idx,
                   skip_count, download_count, files_to_download, classified,
                   analysis_failed, get_files_calls, should_skip_calls,
                   transfer_calls, result>>
    /\ UNCHANGED <<skipVars, relVars>>

\* lines 1816-1819, 1825-1828: _download_dataset has returned and the loop
\* counts its outcome
Coll_Tally ==
    /\ coll_pc = "loop"
    /\ pc = "done"
    /\ IF result = "True"
       THEN /\ success_count' = success_count + 1
            /\ UNCHANGED failed_count
       ELSE /\ failed_count' = failed_count + 1
            /\ UNCHANGED success_count
    /\ pc' = "idle"
    /\ runs' = runs + 1
    /\ UNCHANGED <<coll_pc, limit, coll_force, coll_verify,
                   datasets_to_download, attempted, coll_result>>
    /\ UNCHANGED <<dataset_files, disk, dataset, force, verify_checksum, files, idx,
                   skip_count, download_count, files_to_download, classified,
                   analysis_failed, get_files_calls, should_skip_calls,
                   transfer_calls, result>>
    /\ UNCHANGED <<skipVars, relVars>>

\* lines 1830-1835: the loop is exhausted; return failed_count == 0
Coll_Summary ==
    /\ coll_pc = "loop"
    /\ pc = "idle"
    /\ Len(attempted) = Len(datasets_to_download)
    /\ coll_result' = IF failed_count = 0 THEN "True" ELSE "False"
    /\ coll_pc' = "returned"
    /\ UNCHANGED <<limit, coll_force, coll_verify, datasets_to_download,
                   attempted, success_count, failed_count>>
    /\ UNCHANGED <<skipVars, dlVars, relVars>>

\* ------------------------------------------------------------------------
\* Relationship cache (lines 844-864)
\* ------------------------------------------------------------------------
CACHE_EXPIRY_MINUTES == 15

\* an optional list: None, or a list of records
ListNone == [none |-> TRUE, list |-> <<>>]
ListOf(l) == [none |-> FALSE, list |-> l]
\* truthiness of an optional list: None and [] are falsy
TruthyList(v) == ~v.none /\ v.list # <<>>

\* _get_relationship_cache with the expiry test written <= instead of <
get_relationship_cache_inclusive(cache, stamps, key, t) ==
    IF /\ key \in DOMAIN cache
       /\ key \in DOMAIN stamps
       /\ t - stamps[key] <= CACHE_EXPIRY_MINUTES * 60
    THEN ListOf(cache[key])
    ELSE ListNone

\* _get_relationship_cache at time t: the cached list, or None
get_relationship_cache(cache, stamps, key, t) ==
    IF /\ key \in DOMAIN cache
       /\ key \in DOMAIN stamps
       /\ t - stamps[key] < CACHE_EXPIRY_MINUTES * 60
    THEN ListOf(cache[key])
    ELSE ListNone

\* a store that keeps the data of a key it already holds
set_cache_keep(cache, key, data) ==
    [k \in DOMAIN cache \cup {key} |->
        IF k \in DOMAIN cache THEN cache[k] ELSE data]

\* _set_relationship_cache: the two maps after the call at time t
set_cache(cache, key, data) ==
    [k \in DOMAIN cache \cup {key} |-> IF k = key THEN data ELSE cache[k]]

\* a store that keeps the time of a key it already holds
set_timestamps_keep(stamps, key, t) ==
    [k \in DOMAIN stamps \cup {key} |->
        IF k \in DOMAIN stamps THEN stamps[k] ELSE t]

set_timestamps(stamps, key, t) ==
    [k \in DOMAIN stamps \cup {key} |-> IF k = key THEN t ELSE stamps[k]]

\* ------------------------------------------------------------------------
\* _process_relationship_results (lines 866-894)
\* ------------------------------------------------------------------------
\* a missing attribute of a result item
NoAttr == "<no attribute>"
\* registrationDate is text in two parts: the date (10 characters) and the
\* time of day; str(...)[:10] keeps the first.  Item 1 carries every
\* attribute, item 2 none of them.
RawItem(i) ==
    IF i = 1
    THEN [code |-> "DS9", type |-> "RAW", name |-> "n",
          registrationDate |-> <<"2024-01-02", " 10:11:12">>]
    ELSE [code |-> NoAttr, type |-> NoAttr, name |-> None,
          registrationDate |-> <<>>]

First10(date) == IF date = <<>> THEN <<>> ELSE <<Head(date)>>

process_item(fmt, item) ==
    [code |-> IF item.code # NoAttr THEN item.code
              ELSE IF fmt = "df" THEN "N/A" ELSE "str(item)",
     type |-> IF item.type # NoAttr THEN item.type ELSE "Unknown",
     name |-> IF item.name \in {NoAttr, None, ""} THEN "" ELSE item.name,
     registration_date |-> First10(item.registrationDate)]

process_relationship_results(results) ==
    [i \in DOMAIN results.items |-> process_item(results.fmt, results.items[i])]

\* the item lists a query can return: up to MaxRel items, no dataset twice,
\* in the server's order
RECURSIVE Ascending(_)
Ascending(q) ==
    Len(q) < 2 \/ (q[1] < q[2] /\ Ascending(Tail(q)))
ItemLists ==
    UNION {{[i \in 1..n |-> RawItem(q[i])] :
                q \in {r \in [1..n -> 1..2] : Ascending(r)}} :
           n \in 0..MaxRel}

\* what o.get_datasets(...) or an accessor can return: None, or a DataFrame
\* or a list of items, whichever the installed client produces
RawResults(fmt) ==
    {[none |-> TRUE, fmt |-> fmt, items |-> <<>>]}
        \cup {[none |-> FALSE, fmt |-> fmt, items |-> q] : q \in ItemLists}

\* ------------------------------------------------------------------------
\* SpecRel: _search_dataset_children and _search_dataset_parents
\* ------------------------------------------------------------------------
\* dataset codes and the f-strings "children_{code}", "parents_{code}", as
\* sequences of text pieces
Codes == {<<"D", "S", "1">>, <<"D", "S", "2">>}
Relations == {"children", "parents"}
\* the relation name, character by character
RelationText(rel) ==
    IF rel = "children"
    THEN <<"c", "h", "i", "l", "d", "r", "e", "n">>
    ELSE <<"p", "a", "r", "e", "n", "t", "s">>

\* a key made of the dataset code alone
CacheKey_unprefixed(rel, code) == <<"_">> \o code

\* lines 1144, 1196: f"children_{dataset_code}", f"parents_{dataset_code}"
CacheKey(rel, code) == RelationText(rel) \o <<"_">> \o code

\* codes that look like parts of a key: with underscores, with the relation
\* names, empty
KeyCodes ==
    {<<>>, <<"X">>, <<"_", "X">>, <<"X", "_">>,
     RelationText("children"), RelationText("parents"),
     RelationText("children") \o <<"_", "X">>,
     RelationText("parents") \o <<"_", "X">>}

\* What the fallback function hands back: neither
\* _search_dataset_children_fallback nor _search_dataset_parents_fallback
\* has a return statement that carries a value (lines 1243-1285)
fallback_return(found) == ListNone

\* the local children / parents before the filtered query has returned
NoResult == [none |-> TRUE, fmt |-> "unset", items |-> <<>>]

\* the record of a call _set_relationship_cache(key, data) at time t, made
\* after the primary query or after the fallback (via), by a lookup that
\* then returns the value returned; prev is the data the call replaced
LogPut(log, key, data, t, via, returned) ==
    [k \in DOMAIN log \cup {key} |->
        IF k = key
        THEN [data |-> data, at |-> t, via |-> via, returned |-> returned,
              prev |-> IF key \in DOMAIN log
                       THEN ListOf(log[key].data)
                       ELSE ListNone]
        ELSE log[k]]

\* a caller that caches whatever it is about to return, [] included
FallbackFinish_always_caches(found) ==
    LET res == fallback_return(found)
        value == IF res.none THEN <<>> ELSE res.list
    IN  /\ relationship_cache' =
             set_cache(relationship_cache, cache_key, value)
        /\ cache_timestamps' =
             set_timestamps(cache_timestamps, cache_key, now)
        /\ put_log' = LogPut(put_log, cache_key, value, now, "fallback",
                             value)
        /\ lookup_result' = value
        /\ rel_pc' = "returned"

\* lines 1186-1189, 1238-1241: the caller caches a truthy fallback result
\* and returns it, or [] for None
FallbackFinish(found) ==
    LET res == fallback_return(found)
    IN  /\ IF TruthyList(res)
           THEN /\ relationship_cache' =
                     set_cache(relationship_cache, cache_key, res.list)
                /\ cache_timestamps' =
                     set_timestamps(cache_timestamps, cache_key, now)
                /\ put_log' = LogPut(put_log, cache_key, res.list, now,
                                     "fallback", res.list)
           ELSE UNCHANGED <<relationship_cache, cache_timestamps, put_log>>
        /\ lookup_result' = IF res.none THEN <<>> ELSE res.list
        /\ rel_pc' = "returned"

\* a cache check by truthiness (if cached_result:), for which [] is a miss
Lookup_truthy ==
    /\ rel_pc = "idle"
    /\ lookups < MaxLookups
    /\ lookups' = lookups + 1
    /\ \E rel \in Relations, code \in codes :
        LET key == CacheKey(rel, code)
            cached_result ==
                get_relationship_cache(relationship_cache, cache_timestamps,
                                       key, now)
        IN  /\ relation' = rel
            /\ dataset_code' = code
            /\ cache_key' = key
            /\ IF TruthyList(cached_result)
               THEN /\ lookup_result' = cached_result.list
                    /\ rel_pc' = "returned"
               ELSE /\ lookup_result' = <<>>
                    /\ rel_pc' = "primary"
    /\ client_calls' = <<>>
    /\ fallback_found' = ListNone
    /\ primary_result' = NoResult
    /\ fallback_raised' = FALSE
    /\ UNCHANGED <<codes, result_format, relationship_cache, cache_timestamps, now, ticks,
                   put_log>>
    /\ UNCHANGED <<skipVars, dlVars, collVars>>

\* a cache check whose hit restarts the lifetime of the entry
Lookup_refreshing ==
    /\ rel_pc = "idle"
    /\ lookups < MaxLookups
    /\ lookups' = lookups + 1
    /\ \E rel \in Relations, code \in codes :
        LET key == CacheKey(rel, code)
            cached_result ==
                get_relationship_cache(relationship_cache, cache_timestamps,
                                       key, now)
        IN  /\ relation' = rel
            /\ dataset_code' = code
            /\ cache_key' = key
            /\ IF ~cached_result.none
               THEN /\ lookup_result' = cached_result.list
                    /\ rel_pc' = "returned"
                    /\ cache_timestamps' =
                            [cache_timestamps EXCEPT ![key] = now]
               ELSE /\ lookup_result' = <<>>
                    /\ rel_pc' = "primary"
                    /\ cache_timestamps' = cache_timestamps
    /\ client_calls' = <<>>
    /\ fallback_found' = ListNone
    /\ primary_result' = NoResult
    /\ fallback_raised' = FALSE
    /\ UNCHANGED <<codes, result_format, relationship_cache, now, ticks,
                   put_log>>
    /\ UNCHANGED <<skipVars, dlVars, collVars>>

\* lines 1139-1149, 1191-1201: the call and its cache check
Lookup ==
    /\ rel_pc = "idle"
    /\ lookups < MaxLookups
    /\ lookups' = lookups + 1
    /\ \E rel \in Relations, code \in codes :
        LET key == CacheKey(rel, code)
            cached_result ==
                get_relationship_cache(relationship_cache, cache_timestamps,
                                       key, now)
        IN  /\ relation' = rel
            /\ dataset_code' = code
            /\ cache_key' = key
            /\ IF ~cached_result.none
               THEN /\ lookup_result' = cached_result.list
                    /\ rel_pc' = "returned"
               ELSE /\ lookup_result' = <<>>
                    /\ rel_pc' = "primary"
    /\ client_calls' = <<>>
    /\ fallback_found' = ListNone
    /\ primary_result' = NoResult
    /\ fallback_raised' = FALSE
    /\ UNCHANGED <<codes, result_format, relationship_cache, cache_timestamps, now, ticks,
                   put_log>>
    /\ UNCHANGED <<skipVars, dlVars, collVars>>

\* a lookup that turns to the fallback when the filtered query returns
\* nothing
Primary_Return_empty_falls_back ==
    /\ rel_pc = "primary"
    /\ client_calls' = Append(client_calls,
                              IF relation = "children"
                              THEN "get_datasets(withParents)"
                              ELSE "get_datasets(withChildren)")
    /\ \E res \in RawResults(result_format) :
        LET processed == IF ~res.none /\ Len(res.items) > 0
                         THEN process_relationship_results(res)
                         ELSE <<>>
        IN  /\ primary_result' = res
            /\ IF processed # <<>>
               THEN /\ relationship_cache' =
                         set_cache(relationship_cache, cache_key, processed)
                    /\ cache_timestamps' =
                         set_timestamps(cache_timestamps, cache_key, now)
                    /\ put_log' = LogPut(put_log, cache_key, processed, now,
                                         "primary", processed)
                    /\ lookup_result' = processed
                    /\ rel_pc' = "returned"
               ELSE /\ rel_pc' = "fallback"
                    /\ UNCHANGED <<relationship_cache, cache_timestamps,
                                   put_log, lookup_result>>
    /\ UNCHANGED <<codes, result_format, now, ticks, lookups, relation, dataset_code,
                   cache_key, fallback_found, fallback_raised>>
    /\ UNCHANGED <<skipVars, dlVars, collVars>>

\* a query that caches only a non-empty result
Primary_Return_empty_uncached ==
    /\ rel_pc = "primary"
    /\ client_calls' = Append(client_calls,
                              IF relation = "children"
                              THEN "get_datasets(withParents)"
                              ELSE "get_datasets(withChildren)")
    /\ \E res \in RawResults(result_format) :
        LET processed == IF ~res.none /\ Len(res.items) > 0
                         THEN process_relationship_results(res)
                         ELSE <<>>
        IN  /\ IF processed # <<>>
               THEN /\ relationship_cache' =
                         set_cache(relationship_cache, cache_key, processed)
                    /\ cache_timestamps' =
                         set_timestamps(cache_timestamps, cache_key, now)
                    /\ put_log' = LogPut(put_log, cache_key, processed, now,
                                         "primary", processed)
               ELSE UNCHANGED <<relationship_cache, cache_timestamps,
                                put_log>>
            /\ lookup_result' = processed
            /\ primary_result' = res
    /\ rel_pc' = "returned"
    /\ UNCHANGED <<codes, result_format, now, ticks, lookups, relation, dataset_code,
                   cache_key, fallback_found, fallback_raised>>
    /\ UNCHANGED <<skipVars, dlVars, collVars>>

\* lines 1156-1181, 1208-1233: the filtered query returns
Primary_Return ==
    /\ rel_pc = "primary"
    /\ client_calls' = Append(client_calls,
                              IF relation = "children"
                              THEN "get_datasets(withParents)"
                              ELSE "get_datasets(withChildren)")
    /\ \E res \in RawResults(result_format) :
        LET processed == IF ~res.none /\ Len(res.items) > 0
                         THEN process_relationship_results(res)
                         ELSE <<>>
        IN  /\ relationship_cache' =
                 set_cache(relationship_cache, cache_key, processed)
            /\ cache_timestamps' =
                 set_timestamps(cache_timestamps, cache_key, now)
            /\ put_log' = LogPut(put_log, cache_key, processed, now,
                                 "primary", processed)
            /\ lookup_result' = processed
            /\ primary_result' = res
    /\ rel_pc' = "returned"
    /\ UNCHANGED <<codes, result_format, now, ticks, lookups, relation, dataset_code,
                   cache_key, fallback_found, fallback_raised>>
    /\ UNCHANGED <<skipVars, dlVars, collVars>>

\* lines 1183-1186, 1235-1238: the filtered query raises
Primary_Raise ==
    /\ rel_pc = "primary"
    /\ client_calls' = Append(client_calls,
                              IF relation = "children"
                              THEN "get_datasets(withParents)"
                              ELSE "get_datasets(withChildren)")
    /\ rel_pc' = "fallback"
    /\ UNCHANGED <<codes, result_format, relationship_cache, cache_timestamps, now, ticks, lookups,
                   relation, dataset_code, cache_key, fallback_found,
                   lookup_result, primary_result, fallback_raised, put_log>>
    /\ UNCHANGED <<skipVars, dlVars, collVars>>

\* lines 1246-1249, 1262-1263 (1268-1271, 1284-1285): the fallback's
\* get_datasets(code=...) raises or finds no dataset
Fallback_NoDataset ==
    /\ rel_pc = "fallback"
    /\ client_calls' = Append(client_calls, "get_datasets(code)")
    /\ fallback_found' = ListNone
    /\ fallback_raised' \in BOOLEAN
    /\ FallbackFinish(ListNone)
    /\ UNCHANGED <<codes, result_format, now, ticks, lookups, relation, dataset_code,
                   cache_key, primary_result>>
    /\ UNCHANGED <<skipVars, dlVars, collVars>>

\* lines 1246-1251 (1268-1273): the fallback finds the dataset
Fallback_Dataset ==
    /\ rel_pc = "fallback"
    /\ client_calls' = Append(client_calls, "get_datasets(code)")
    /\ rel_pc' = "accessor"
    /\ UNCHANGED <<codes, result_format, relationship_cache, cache_timestamps, now, ticks, lookups,
                   relation, dataset_code, cache_key, fallback_found,
                   lookup_result, primary_result, fallback_raised, put_log>>
    /\ UNCHANGED <<skipVars, dlVars, collVars>>

\* lines 1252, 1262-1263 (1274, 1284-1285): the accessor raises
Accessor_Raise ==
    /\ rel_pc = "accessor"
    /\ client_calls' = Append(client_calls,
                              IF relation = "children"
                              THEN "get_children" ELSE "get_parents")
    /\ fallback_found' = ListNone
    /\ fallback_raised' = TRUE
    /\ FallbackFinish(ListNone)
    /\ UNCHANGED <<codes, result_format, now, ticks, lookups, relation, dataset_code,
                   cache_key, primary_result>>
    /\ UNCHANGED <<skipVars, dlVars, collVars>>

\* lines 1252-1261 (1274-1283): the accessor returns the related datasets,
\* which the fallback prints
Accessor_Return ==
    /\ rel_pc = "accessor"
    /\ client_calls' = Append(client_calls,
                              IF relation = "children"
                              THEN "get_children" ELSE "get_parents")
    /\ \E res \in RawResults(result_format) :
        LET found == IF res.none THEN ListNone
                     ELSE ListOf(process_relationship_results(res))
        IN  /\ fallback_found' = found
            /\ FallbackFinish(found)
    /\ fallback_raised' = FALSE
    /\ UNCHANGED <<codes, result_format, now, ticks, lookups, relation, dataset_code,
                   cache_key, primary_result>>
    /\ UNCHANGED <<skipVars, dlVars, collVars>>

\* the lookup has returned to its caller and its locals are gone; the next
\* one may start
LookupReturn ==
    /\ rel_pc = "returned"
    /\ rel_pc' = "idle"
    /\ relation' = "children"
    /\ dataset_code' = <<"D", "S", "1">>
    /\ cache_key' = <<>>
    /\ client_calls' = <<>>
    /\ fallback_found' = ListNone
    /\ lookup_result' = <<>>
    /\ primary_result' = NoResult
    /\ fallback_raised' = FALSE
    /\ UNCHANGED <<codes, result_format, relationship_cache, cache_timestamps, now, ticks, lookups,
                   put_log>>
    /\ UNCHANGED <<skipVars, dlVars, collVars>>

\* time passes, between lookups or while the filtered query is under way,
\* half an expiry window at a time
TickDeltas == {(CACHE_EXPIRY_MINUTES * 60) \div 2}
Tick ==
    /\ ticks < MaxTicks
    /\ rel_pc \in {"idle", "primary"}
    /\ ticks' = ticks + 1
    /\ \E d \in TickDeltas : now' = now + d
    /\ UNCHANGED <<codes, result_format, relationship_cache, cache_timestamps, lookups, rel_pc,
                   relation, dataset_code, cache_key, client_calls,
                   fallback_found, lookup_result, primary_result,
                   fallback_raised, put_log>>
    /\ UNCHANGED <<skipVars, dlVars, collVars>>

\* ------------------------------------------------------------------------
\* Specifications
\* ------------------------------------------------------------------------
skipIdle ==
    /\ skip_local = Absent
    /\ skip_remote = Info(NoSize, NoDate, None)
    /\ skip_verify = FALSE
    /\ skip_result = Pending
    /\ skip_again = Pending

collIdle ==
    /\ coll_pc = "idle"
    /\ limit = NoLimit
    /\ coll_force = FALSE
    /\ coll_verify = FALSE
    /\ datasets_to_download = <<>>
    /\ attempted = <<>>
    /\ success_count = 0
    /\ failed_count = 0
    /\ coll_result = "running"

dlIdle ==
    /\ dataset_files = <<>>
    /\ disk = [p \in LocalPaths |-> Absent]
    /\ pc = "idle"
    /\ dataset = "unset"
    /\ force = FALSE
    /\ verify_checksum = FALSE
    /\ files = [fmt |-> "list", rows |-> <<>>]
    /\ idx = 0
    /\ skip_count = 0
    /\ download_count = 0
    /\ files_to_download = FilesList(<<>>)
    /\ classified = <<>>
    /\ analysis_failed = FALSE
    /\ get_files_calls = 0
    /\ should_skip_calls = 0
    /\ transfer_calls = <<>>
    /\ result = "running"
    /\ runs = 0

\* the module as imported: both maps empty (lines 845-846)
relIdle ==
    /\ codes = Codes
    /\ result_format = "list"
    /\ relationship_cache = <<>>
    /\ cache_timestamps = <<>>
    /\ now = 0
    /\ ticks = 0
    /\ lookups = 0
    /\ rel_pc = "idle"
    /\ relation = "children"
    /\ dataset_code = <<"D", "S", "1">>
    /\ cache_key = <<>>
    /\ client_calls = <<>>
    /\ fallback_found = ListNone
    /\ lookup_result = <<>>
    /\ primary_result = NoResult
    /\ fallback_raised = FALSE
    /\ put_log = <<>>

InitSkip ==
    /\ skip_local \in LocalFiles
    /\ skip_remote \in RemoteFileInfos
    /\ skip_verify \in BOOLEAN
    /\ skip_result = Pending
    /\ skip_again = Pending
    /\ dlIdle
    /\ relIdle
    /\ collIdle

NextSkip ==
    \/ ShouldSkipFile
    \/ ShouldSkipFileAgain

SpecSkip == InitSkip /\ [][NextSkip]_vars

Init ==
    /\ skipIdle
    /\ dataset_files \in Manifests
    /\ disk \in [LocalPaths -> DlLocals]
    /\ pc = "idle"
    /\ dataset = "unset"
    /\ force = FALSE
    /\ verify_checksum = FALSE
    /\ files = [fmt |-> "list", rows |-> <<>>]
    /\ idx = 0
    /\ skip_count = 0
    /\ download_count = 0
    /\ files_to_download = FilesList(<<>>)
    /\ classified = <<>>
    /\ analysis_failed = FALSE
    /\ get_files_calls = 0
    /\ should_skip_calls = 0
    /\ transfer_calls = <<>>
    /\ result = "running"
    /\ runs = 0
    /\ relIdle
    /\ collIdle

Next ==
    \/ Call_Found
    \/ Call_NotFound
    \/ GetFiles_Raise
    \/ GetFiles_Return
    \/ AnalyzeFile
    \/ AnalysisComplete
    \/ Download_Raise
    \/ Download_Return
    \/ Return

Spec == Init /\ [][Next]_vars

\* the module as imported, with either kind of client
InitRel ==
    /\ skipIdle
    /\ dlIdle
    /\ collIdle
    /\ codes = Codes
    /\ result_format \in {"df", "list"}
    /\ relationship_cache = <<>>
    /\ cache_timestamps = <<>>
    /\ now = 0
    /\ ticks = 0
    /\ lookups = 0
    /\ rel_pc = "idle"
    /\ relation = "children"
    /\ dataset_code = <<"D", "S", "1">>
    /\ cache_key = <<>>
    /\ client_calls = <<>>
    /\ fallback_found = ListNone
    /\ lookup_result = <<>>
    /\ primary_result = NoResult
    /\ fallback_raised = FALSE
    /\ put_log = <<>>

NextRel ==
    \/ Lookup
    \/ Primary_Return
    \/ Primary_Raise
    \/ Fallback_NoDataset
    \/ Fallback_Dataset
    \/ Accessor_Raise
    \/ Accessor_Return
    \/ LookupReturn
    \/ Tick

SpecRel == InitRel /\ [][NextRel]_vars

\* a process that looks up one or two codes out of KeyCodes, with a client
\* whose filtered queries return
InitKey ==
    /\ skipIdle
    /\ dlIdle
    /\ collIdle
    /\ codes \in {{x, y} : x \in KeyCodes, y \in KeyCodes}
    /\ result_format = "list"
    /\ relationship_cache = <<>>
    /\ cache_timestamps = <<>>
    /\ now = 0
    /\ ticks = 0
    /\ lookups = 0
    /\ rel_pc = "idle"
    /\ relation = "children"
    /\ dataset_code = <<"D", "S", "1">>
    /\ cache_key = <<>>
    /\ client_calls = <<>>
    /\ fallback_found = ListNone
    /\ lookup_result = <<>>
    /\ primary_result = NoResult
    /\ fallback_raised = FALSE
    /\ put_log = <<>>

NextKey ==
    \/ Lookup
    \/ Primary_Return
    \/ LookupReturn

SpecKey == InitKey /\ [][NextKey]_vars

\* manifests of at most one file: every dataset of the collection has this
\* manifest and is written to the one output directory
CollManifests == {m \in Manifests : Len(m) <= 1}

\* before the call of _download_collection_datasets
InitColl ==
    /\ skipIdle
    /\ relIdle
    /\ collIdle
    /\ dataset_files \in CollManifests
    /\ disk \in [LocalPaths -> DlLocals]
    /\ pc = "idle"
    /\ dataset = "unset"
    /\ force = FALSE
    /\ verify_checksum = FALSE
    /\ files = [fmt |-> "list", rows |-> <<>>]
    /\ idx = 0
    /\ skip_count = 0
    /\ download_count = 0
    /\ files_to_download = FilesList(<<>>)
    /\ classified = <<>>
    /\ analysis_failed = FALSE
    /\ get_files_calls = 0
    /\ should_skip_calls = 0
    /\ transfer_calls = <<>>
    /\ result = "running"
    /\ runs = 0

NextColl ==
    \/ Coll_NotListed
    \/ Coll_Listed
    \/ Coll_Download_Found
    \/ Coll_Download_NotFound
    \/ GetFiles_Raise
    \/ GetFiles_Return
    \/ AnalyzeFile
    \/ AnalysisComplete
    \/ Download_Raise
    \/ Download_Return
    \/ Coll_Tally
    \/ Coll_Summary

SpecColl == InitColl /\ [][NextColl]_vars

\* ------------------------------------------------------------------------
\* Properties of _should_skip_file (SpecSkip)
\* ------------------------------------------------------------------------
Decided == skip_result.kind # "pending"
Fetch == skip_result.kind = "return" /\ ~skip_result.skip
Skip == skip_result.kind = "return" /\ skip_result.skip

\* the remote size is known and equals the local size
SizesMatch ==
    /\ skip_local.kind = "file"
    /\ skip_remote.fileLength # NoSize
    /\ skip_remote.fileLength = skip_local.size

\* the remote checksum the code reads: checksum, else crc32
SkipRemoteChecksum ==
    IF skip_remote.checksum \notin {None, ""}
    THEN skip_remote.checksum ELSE skip_remote.crc32

\* verify_checksum is set, a remote checksum is present and it differs, case
\* aside, from the digest computed of the local file
ChecksumDiffers ==
    /\ skip_verify
    /\ SkipRemoteChecksum \notin {None, ""}
    /\ skip_local.digest # None
    /\ Lower(skip_local.digest) # Lower(SkipRemoteChecksum)

\* the remote modification time is a non-zero number (or converts to one)
\* that is not newer than the local modification time
RemoteNotNewerNonZero ==
    /\ skip_remote.modificationDate.kind \in {"num", "ts"}
    /\ skip_remote.modificationDate.t # 0
    /\ skip_local.mtime >= skip_remote.modificationDate.t

\* C1: whenever no file exists at the local path the decision is fetch, with
\* the reason "File does not exist locally", whatever the remote descriptor
\* and verify_checksum are.
C1_AbsentIsFetch ==
    (Decided /\ skip_local.kind = "absent") =>
        skip_result = Ret(FALSE, "File does not exist locally", <<>>)

\* C1 witness: an absent file was decided against a descriptor whose size is
\* unknown, with checksum verification requested.
C1_Witness ==
    /\ Decided
    /\ skip_local.kind = "absent"
    /\ skip_remote.fileLength = NoSize
    /\ skip_remote.checksum = "ab"
    /\ skip_verify

\* C2: when the local file exists and the remote size is known and differs
\* from the local size, the decision is fetch, whatever the remote
\* modification time, the remote checksum and verify_checksum are.
C2_SizeMismatchIsFetch ==
    (/\ Decided
     /\ skip_local.kind = "file"
     /\ skip_remote.fileLength # NoSize
     /\ skip_remote.fileLength # skip_local.size) => Fetch

\* C2 witness: sizes differ while the remote time is not newer than the local
\* one and the checksum, verified, would match.
C2_Witness ==
    /\ Decided
    /\ skip_local = LFile("file", 1, 2, "ab")
    /\ skip_remote.fileLength = 0
    /\ skip_remote.modificationDate = MDate("num", 1)
    /\ skip_remote.checksum = "ab"
    /\ skip_verify
    /\ Fetch

\* C3 as stated: with matching sizes and a verified checksum that differs,
\* the decision is fetch ("Checksum mismatch") for every remote modification
\* time.
C3_Original ==
    (Decided /\ SizesMatch /\ ChecksumDiffers) =>
        skip_result = Ret(FALSE, "Checksum mismatch", <<>>)

\* C3 amended: with matching sizes and a verified checksum that differs, the
\* decision is fetch ("Checksum mismatch") unless the remote modification
\* time is a non-zero number not newer than the local modification time; in
\* that case the decision is skip ("Local file is newer or same age") and no
\* checksum is compared.
C3_ChecksumMismatchIsFetch ==
    (Decided /\ SizesMatch /\ ChecksumDiffers) =>
        IF RemoteNotNewerNonZero
        THEN skip_result = Ret(TRUE, "Local file is newer or same age", <<>>)
        ELSE skip_result = Ret(FALSE, "Checksum mismatch", <<>>)

\* C3 witness: sizes match, the remote time is newer than the local one and
\* the upper-case remote checksum differs from the local digest.
C3_Witness ==
    /\ Decided
    /\ SizesMatch
    /\ ChecksumDiffers
    /\ skip_remote.modificationDate = MDate("num", 2)
    /\ skip_local.mtime = 1
    /\ skip_remote.checksum = "AB"
    /\ skip_result.reason = "Checksum mismatch"

\* C4 as stated: with matching sizes and a numeric remote modification time
\* (0 included) that is not newer than the local one, the decision is skip
\* for every verify_checksum and remote checksum.
C4_NotNewerIsSkip ==
    (/\ Decided
     /\ SizesMatch
     /\ skip_remote.modificationDate.kind = "num"
     /\ skip_local.mtime >= skip_remote.modificationDate.t) => Skip

\* ------------------------------------------------------------------------
\* Properties of _download_dataset (Spec)
\* ------------------------------------------------------------------------
\* the run passed the dataset lookup and the creation of output_path and
\* has returned
Finished == pc = "done" /\ dataset = "found"

\* the analysis loop ran over the whole manifest without an exception
AnalysisDone ==
    /\ ~force
    /\ get_files_calls = 1
    /\ ~analysis_failed
    /\ Len(classified) = Len(files.rows)

\* manifest entries the analysis classified as d
ClassifiedAs(d) == {i \in DOMAIN classified : classified[i] = d}

\* local paths of the entries of the fetch-list
FetchPaths ==
    {lstrip(files_to_download.list[i]) : i \in DOMAIN files_to_download.list}

\* the decision _should_skip_file gives now for manifest entry i
DecisionNow(i) ==
    should_skip_file(disk[lstrip(dataset_files[i].pathInDataSet)],
                     dataset_files[i].info, verify_checksum)

\* C5 as stated: in a non-force download in which at least one file is
\* classified fetch, the transfer requested from the client covers only the
\* files of the fetch-list; files classified skip are not transferred again.
C5_TransfersOnlyFetchList ==
    (Finished /\ AnalysisDone /\ ClassifiedAs("fetch") # {}) =>
        /\ Len(transfer_calls) = 1
        /\ Covered(transfer_calls[1]) \subseteq FetchPaths

\* C7: in a non-force download whose manifest enumeration succeeds and in
\* which no entry is classified fetch, _download_dataset returns True and
\* issues no transfer call.
C7_AllSkipNoTransfer ==
    (Finished /\ AnalysisDone /\ ClassifiedAs("fetch") = {}) =>
        /\ result = "True"
        /\ transfer_calls = <<>>

\* C7 witness: every entry of a full manifest was classified skip and the
\* call returned True without a transfer.
C7_Witness ==
    /\ Finished
    /\ AnalysisDone
    /\ Len(files.rows) = MaxFiles
    /\ ClassifiedAs("skip") = DOMAIN files.rows
    /\ result = "True"
    /\ transfer_calls = <<>>

\* C8: in a non-force download, a manifest entry classified fetch has its
\* path in the fetch-list from then on (or, once an exception in the
\* analysis of a later entry has replaced the list by None, the whole
\* dataset is requested), no transfer call is issued before the analysis is
\* over, and exactly one has been issued when the call returns.
C8_FetchListedAndTransferred ==
    (pc \in {"analyze", "download", "done"} /\ dataset = "found" /\ ~force
        /\ ClassifiedAs("fetch") # {}) =>
        /\ \A i \in ClassifiedAs("fetch") :
              IF files_to_download.none
              THEN analysis_failed
              ELSE \E j \in DOMAIN files_to_download.list :
                      files_to_download.list[j] = files.rows[i].pathInDataSet
        /\ pc \in {"analyze", "download"} => transfer_calls = <<>>
        /\ pc = "done" => Len(transfer_calls) = 1

\* C8 witness: the single entry of the manifest does not exist locally, was
\* classified fetch, is the fetch-list, and one transfer call was issued.
C8_Witness ==
    /\ Finished
    /\ AnalysisDone
    /\ Len(files.rows) = 1
    /\ classified = <<"fetch">>
    /\ files_to_download = FilesList(<<files.rows[1].pathInDataSet>>)
    /\ Len(transfer_calls) = 1

\* C9: with force=true, once the dataset is found and output_path created,
\* the manifest is never enumerated and _should_skip_file never called, and
\* when the call returns exactly one transfer of the whole dataset has been
\* issued.
C9_ForceBypassesAnalysis ==
    (force /\ dataset = "found" /\ pc # "idle") =>
        /\ get_files_calls = 0
        /\ should_skip_calls = 0
        /\ classified = <<>>
        /\ files_to_download = FilesNone
        /\ pc \in {"download", "done"}
        /\ pc = "done" =>
              /\ Len(transfer_calls) = 1
              /\ transfer_calls[1].whole

\* C9 witness: a forced run issued its transfer although every file of a
\* full manifest matches its remote descriptor on disk.
C9_Witness ==
    /\ force
    /\ Finished
    /\ Len(transfer_calls) = 1
    /\ Len(dataset_files) = MaxFiles
    /\ \A i \in DOMAIN dataset_files :
          /\ dataset_files[i].pathInDataSet # <<>>
          /\ DecisionNow(i).kind = "return"
          /\ DecisionNow(i).skip

\* C10: in a non-force download, when enumerating or analysing the manifest
\* raises, the call does not fail there: files_to_download becomes None as
\* in force mode and exactly one full-dataset transfer call is issued.
C10_AnalysisFailureFallsBack ==
    (~force /\ analysis_failed /\ dataset = "found" /\ pc # "idle") =>
        /\ files_to_download = FilesNone
        /\ pc \in {"download", "done"}
        /\ pc = "download" => result = "running" /\ transfer_calls = <<>>
        /\ pc = "done" =>
              /\ Len(transfer_calls) = 1
              /\ transfer_calls[1].whole
              /\ Covered(transfer_calls[1]) =
                    {lstrip(dataset_files[i].pathInDataSet) :
                        i \in DOMAIN dataset_files} \ {<<>>}

\* C10 witness: get_files raised, nothing was classified, and the call went
\* on to a transfer of the whole dataset that succeeded.
C10_Witness ==
    /\ ~force
    /\ Finished
    /\ analysis_failed
    /\ get_files_calls = 1
    /\ classified = <<>>
    /\ Len(transfer_calls) = 1
    /\ result = "True"

\* ------------------------------------------------------------------------
\* Properties of the relationship lookups (SpecRel)
\* ------------------------------------------------------------------------
\* the primary query raised and the fallback's accessor was called
FallbackRan == Len(client_calls) = 3

\* C6 as stated: when the primary query raises and the fallback traversal
\* finds a non-empty set of related datasets, the lookup returns those
\* records and stores them in the cache under the lookup's key.
C6_FallbackResultCached ==
    (rel_pc = "returned" /\ FallbackRan /\ TruthyList(fallback_found)) =>
        /\ lookup_result = fallback_found.list
        /\ cache_key \in DOMAIN relationship_cache
        /\ relationship_cache[cache_key] = fallback_found.list


\* ------------------------------------------------------------------------
\* Further properties of _download_dataset (Spec)
\* ------------------------------------------------------------------------
\* dataset.get_files returned in this non-force run
Enumerated ==
    /\ dataset = "found"
    /\ ~force
    /\ get_files_calls = 1
    /\ (analysis_failed => classified # <<>>)
\* the analysis is behind: the run is at its transfer or has returned
PastAnalysis == pc \in {"download", "done"}
\* manifest entries that name a file
WithPath == {i \in DOMAIN files.rows : files.rows[i].pathInDataSet # <<>>}

C21_NoExceptionPropagates ==
    /\ result \in {"running", "True", "False"}
    /\ pc = "done" => result \in {"True", "False"}
    /\ (pc = "done" /\ dataset = "missing") => result = "False"
    /\ (dataset = "found" /\ analysis_failed) =>
        /\ files_to_download = FilesNone
        /\ \/ pc = "download" /\ transfer_calls = <<>> /\ result = "running"
           \/ pc \in {"done", "idle"} /\ Len(transfer_calls) = 1
    /\ (pc = "done" /\ transfer_calls # <<>> /\ file_count(disk) = 0) =>
        result = "False"

\* the manifest enumeration failed, the full download was requested in its
\* place and failed too although files are on disk: the run returned False
C21_Witness ==
    /\ pc = "done"
    /\ dataset = "found"
    /\ analysis_failed
    /\ get_files_calls = 1
    /\ should_skip_calls = 0
    /\ Len(transfer_calls) = 1
    /\ file_count(disk) > 0
    /\ result = "False"

\* the step in which the transfer call of a run ends
TransferEnds == pc = "download" /\ pc' = "done"

\* C25 as stated: after a transfer call returns, _download_dataset returns
\* True only when at least one regular file exists under the output
\* directory, so that a transfer that materializes no file is reported as a
\* failure (False).
C25_EmptyTransferIsFailure ==
    [][TransferEnds =>
          /\ result' = "True" => file_count(disk') > 0
          /\ disk' = disk => result' = "False"]_vars

\* every file of the manifest is on disk with its remote size and a
\* modification time not older than the remote one
AllMaterialized ==
    \A i \in DOMAIN dataset_files :
        LET path == dataset_files[i].pathInDataSet
            remote == dataset_files[i].info
            local == disk[lstrip(path)]
        IN  path # <<>> =>
                /\ local.kind = "file"
                /\ \/ remote.fileLength = NoSize
                   \/ local.size = remote.fileLength
                /\ remote.modificationDate.kind \in {"num", "ts"}
                      => local.mtime >= remote.modificationDate.t
\* the analysis of a run without checksum verification, over such a disk
AnalyzingMaterialized ==
    pc = "analyze" /\ ~verify_checksum /\ AllMaterialized

\* C28: with verify_checksum false, once a transfer has put every manifest
\* file on disk with its remote size and a modification time not older than
\* the remote one, and nothing has changed since, the next non-force
\* _download_dataset that enumerates the manifest classifies every file as
\* skip, requests no transfer and returns True.
C28_SecondDownloadSkipsAll ==
    /\ [](AnalyzingMaterialized =>
            /\ \A i \in DOMAIN classified :
                  classified[i] \in {"skip", "ignored"}
            /\ download_count = 0
            /\ transfer_calls = <<>>)
    /\ [][(AnalyzingMaterialized /\ pc' # "analyze") =>
            /\ pc' = "done"
            /\ result' = "True"
            /\ transfer_calls' = <<>>]_vars

\* the second run over files that a transfer has written (they carry its
\* time): all skipped, nothing requested, True returned
C28_Witness ==
    /\ runs >= 1
    /\ pc = "done"
    /\ ~force
    /\ ~verify_checksum
    /\ AllMaterialized
    /\ Len(dataset_files) = MaxFiles
    /\ \A i \in DOMAIN dataset_files :
          /\ dataset_files[i].pathInDataSet # <<>>
          /\ disk[lstrip(dataset_files[i].pathInDataSet)].mtime = MaxTime
    /\ Len(classified) = MaxFiles
    /\ \A i \in DOMAIN classified : classified[i] = "skip"
    /\ transfer_calls = <<>>
    /\ result = "True"

\* ------------------------------------------------------------------------
\* Further properties of _should_skip_file (SpecSkip)
\* ------------------------------------------------------------------------
\* the local file exists but cannot be read, verification is asked for and
\* the remote side supplies a checksum
DigestFails ==
    /\ skip_local.kind = "file"
    /\ skip_local.digest = None
    /\ skip_verify
    /\ TruthyStr(RemoteChecksum(skip_remote))

\* C17: with verify_checksum true and a remote checksum present, when the
\* local digest cannot be computed _should_skip_file raises nothing and
\* decides as it does with verify_checksum false on the same pair.
C17_DigestFailureFallsThrough ==
    (Decided /\ DigestFails) =>
        /\ skip_result.kind = "return"
        /\ skip_result = should_skip_file(skip_local, skip_remote, FALSE)

\* an unreadable file of the right size, no usable remote time: skipped on
\* its size although a checksum was to be verified
C17_Witness ==
    /\ Decided
    /\ DigestFails
    /\ SizesMatch
    /\ skip_remote.modificationDate = NoDate
    /\ skip_result = Ret(TRUE, "File exists with matching size", <<>>)

\* the remote descriptor with its modification time taken away
WithoutDate == [skip_remote EXCEPT !.modificationDate = NoDate]

\* C18: a remote modification time given as a string is never compared with
\* the local one: the decision is the one made with the remote time absent.
C18_StringDateIgnored ==
    (Decided /\ skip_remote.modificationDate.kind = "str") =>
        skip_result = should_skip_file(skip_local, WithoutDate, skip_verify)

\* the string spells a time not newer than the local one, and still the
\* file was not skipped for its age
C18_Witness ==
    /\ Decided
    /\ skip_local.kind = "file"
    /\ SizesMatch
    /\ skip_remote.modificationDate.kind = "str"
    /\ skip_remote.modificationDate.t > 0
    /\ skip_local.mtime >= skip_remote.modificationDate.t
    /\ skip_result.kind = "return"
    /\ skip_result.reason # "Local file is newer or same age"

C26_SkipNeedsFileOfRightSize ==
    Skip =>
        /\ skip_local.kind = "file"
        /\ \/ skip_remote.fileLength = NoSize
           \/ skip_remote.fileLength = skip_local.size

\* a skip granted on the checksum alone, the remote size being unknown
C26_Witness ==
    /\ Skip
    /\ skip_remote.fileLength = NoSize
    /\ skip_verify
    /\ skip_result.reason = "Checksum verified"

\* C30: the last statement of _should_skip_file is never reached: no local
\* file, remote descriptor and verify_checksum make it return fetch with
\* the reason "Unknown verification failure".
C30_LastBranchUnreachable ==
    Decided => skip_result.reason # "Unknown verification failure"

\* the test just before the last statement is reached, with a known remote
\* size, after the checksum validation found nothing to compare
C30_Witness ==
    /\ Decided
    /\ skip_verify
    /\ skip_remote.fileLength # NoSize
    /\ skip_remote.modificationDate = NoDate
    /\ ~TruthyStr(RemoteChecksum(skip_remote))
    /\ skip_result = Ret(TRUE, "File exists with matching size", <<>>)

\* ------------------------------------------------------------------------
\* Properties of the relationship cache (SpecRel)
\* ------------------------------------------------------------------------
\* the expiry window in seconds, and the time since the latest put on key k
Window == CACHE_EXPIRY_MINUTES * 60
Elapsed(k) == now - put_log[k].at
\* what _get_relationship_cache(k) returns when called in this state
GetNow(k) ==
    get_relationship_cache(relationship_cache, cache_timestamps, k, now)
\* the lookup in progress found its key in the cache and has returned
CacheHit == rel_pc = "returned" /\ client_calls = <<>>

\* C11: after _set_relationship_cache(k, v), a _get_relationship_cache(k)
\* issued before 15 minutes have passed, with no later put on k, returns
\* exactly v.
C11_GetWithinWindowReturnsPut ==
    \A k \in DOMAIN put_log :
        Elapsed(k) < Window => GetNow(k) = ListOf(put_log[k].data)

\* a lookup half a window after the put has hit and returned the records
C11_Witness ==
    /\ CacheHit
    /\ cache_key \in DOMAIN put_log
    /\ Elapsed(cache_key) > 0
    /\ Elapsed(cache_key) < Window
    /\ put_log[cache_key].data # <<>>
    /\ lookup_result = put_log[cache_key].data

\* C12: once 900 seconds or more have passed since the latest put on k,
\* exactly 900 included, _get_relationship_cache(k) returns None although
\* the entry is still stored.
C12_GetAfterWindowMisses ==
    \A k \in DOMAIN put_log :
        Elapsed(k) >= Window =>
            /\ GetNow(k) = ListNone
            /\ k \in DOMAIN relationship_cache
            /\ relationship_cache[k] = put_log[k].data

\* a second lookup exactly one window after the put has missed and is about
\* to query the client
C12_Witness ==
    /\ rel_pc = "primary"
    /\ client_calls = <<>>
    /\ cache_key \in DOMAIN put_log
    /\ Elapsed(cache_key) = Window


\* a step that starts a lookup (the call and its cache check)
LookupStarts == rel_pc = "idle" /\ rel_pc' # "idle"
\* at the start of a lookup, its key was put less than a window ago
KeyFresh ==
    /\ cache_key' \in DOMAIN put_log
    /\ now - put_log[cache_key'].at < Window
\* the lookup that starts is answered from the cache with value v and
\* without a call on the client
ServedFromCache(v) ==
    /\ rel_pc' = "returned"
    /\ client_calls' = <<>>
    /\ lookup_result' = v
\* a lookup answered from the cache makes no client call before it ends
HitStaysSilent == CacheHit => client_calls' = <<>>

\* C13: after a put of the empty list under k, a get within the window is a
\* hit that yields the empty sequence, not a miss, and a lookup of k then
\* returns [] without a query to the client.
C13_EmptyListIsHit ==
    /\ [](\A k \in DOMAIN put_log :
            (put_log[k].data = <<>> /\ Elapsed(k) < Window)
                => GetNow(k) = ListOf(<<>>))
    /\ [][((LookupStarts /\ KeyFresh /\ put_log[cache_key'].data = <<>>)
                => ServedFromCache(<<>>))
          /\ HitStaysSilent]_vars

\* a lookup has been answered with the cached empty list
C13_Witness ==
    /\ CacheHit
    /\ cache_key \in DOMAIN put_log
    /\ put_log[cache_key].data = <<>>
    /\ Elapsed(cache_key) < Window
    /\ lookup_result = <<>>

\* C14: when the first lookup of a relation and code succeeded through the
\* primary query, a second lookup of the same relation and code within the
\* expiry window returns the identical result and calls the client not at
\* all.
C14_SecondLookupServedFromCache ==
    [][((LookupStarts /\ KeyFresh /\ put_log[cache_key'].via = "primary")
            => ServedFromCache(put_log[cache_key'].returned))
       /\ HitStaysSilent]_vars

\* a parents lookup was served, half a window later, the records its
\* predecessor had returned
C14_Witness ==
    /\ CacheHit
    /\ relation = "parents"
    /\ lookups >= 2
    /\ cache_key \in DOMAIN put_log
    /\ put_log[cache_key].via = "primary"
    /\ Elapsed(cache_key) > 0
    /\ Len(put_log[cache_key].returned) > 0
    /\ lookup_result = put_log[cache_key].returned

\* both strategies of the lookup in progress have failed
BothFailed == rel_pc = "returned" /\ fallback_raised
\* no _set_relationship_cache call on key k in this step
NoPut(k) ==
    \/ k \notin DOMAIN put_log'
    \/ k \in DOMAIN put_log /\ put_log'[k] = put_log[k]

\* C15: when the primary query raises and the fallback fails too, the lookup
\* returns [] and stores nothing: both maps are as they were when it was
\* called, a get on its key is a miss, it stays a miss until the key is put,
\* and so the next lookup of the key issues the primary query again.
C15_FailureIsNotCached ==
    /\ [](BothFailed =>
            /\ lookup_result = <<>>
            /\ GetNow(cache_key) = ListNone)
    /\ [][/\ (rel_pc' \in {"primary", "fallback", "accessor"}
                    \/ (rel_pc' = "returned" /\ fallback_raised'))
                => UNCHANGED <<relationship_cache, cache_timestamps>>
          /\ \A k \in {CacheKey(r, c) : r \in Relations, c \in Codes} :
                (GetNow(k) = ListNone /\ NoPut(k))
                    => get_relationship_cache(relationship_cache',
                                              cache_timestamps', k, now')
                           = ListNone
          /\ (LookupStarts /\ GetNow(cache_key') = ListNone)
                => (rel_pc' = "primary" /\ client_calls' = <<>>)]_vars

\* the filtered query and then the accessor of the fallback have raised, and
\* the lookup has returned [] with no entry under its key
C15_Witness ==
    /\ BothFailed
    /\ Len(client_calls) = 3
    /\ lookup_result = <<>>
    /\ cache_key \notin DOMAIN relationship_cache

\* the primary query of the lookup in progress has returned
PrimaryReturned == rel_pc = "returned" /\ Len(client_calls) = 1

\* C16: when the primary query returns without raising, the lookup returns
\* the normalized records, or [] for an empty or None result, and that very
\* value is in the cache under the key, stamped with the current time, when
\* the lookup returns.
C16_PrimaryResultCached ==
    PrimaryReturned =>
        /\ lookup_result =
              IF ~primary_result.none /\ Len(primary_result.items) > 0
              THEN process_relationship_results(primary_result)
              ELSE <<>>
        /\ cache_key \in DOMAIN relationship_cache
        /\ relationship_cache[cache_key] = lookup_result
        /\ cache_key \in DOMAIN cache_timestamps
        /\ cache_timestamps[cache_key] = now

\* the primary query returned records and the lookup returned them normalized
C16_Witness ==
    /\ PrimaryReturned
    /\ ~primary_result.none
    /\ Len(primary_result.items) > 0
    /\ Len(lookup_result) = Len(primary_result.items)
    /\ relationship_cache[cache_key] = lookup_result


\* ------------------------------------------------------------------------
\* Properties of _download_collection_datasets (SpecColl)
\* ------------------------------------------------------------------------
\* calls of _download_dataset that have returned and been counted
Counted == success_count + failed_count
\* a call of _download_dataset is under way or not yet counted
InProgress == IF pc = "idle" THEN 0 ELSE 1

\* C20: the loop passes the selected datasets to _download_dataset in their
\* order, each once and one at a time, whatever the earlier outcomes; when
\* it ends every selected dataset has been attempted, success_count +
\* failed_count is the number attempted, and the function returns True
\* exactly when failed_count is 0.
C20_EveryDatasetAttemptedOnce ==
    /\ coll_pc \in {"loop", "returned"} =>
        /\ Len(attempted) <= Len(datasets_to_download)
        /\ attempted = SubSeq(datasets_to_download, 1, Len(attempted))
        /\ Counted + InProgress = Len(attempted)
    /\ coll_pc = "returned" =>
        /\ attempted = datasets_to_download
        /\ Counted = Len(attempted)
        /\ coll_result = "True" <=> failed_count = 0
        /\ coll_result \in {"True", "False"}

\* the first dataset failed; the second was attempted all the same and has
\* just succeeded
C20_Witness ==
    /\ coll_pc = "loop"
    /\ failed_count = 1
    /\ success_count = 0
    /\ attempted = <<1, 2>>
    /\ pc = "done"
    /\ result = "True"


\* ------------------------------------------------------------------------
\* Order of the client calls in a lookup (SpecRel)
\* ------------------------------------------------------------------------
\* the three calls a lookup of relation rel can make, in their order
CallOrder(rel) ==
    IF rel = "children"
    THEN <<"get_datasets(withParents)", "get_datasets(code)", "get_children">>
    ELSE <<"get_datasets(withChildren)", "get_datasets(code)", "get_parents">>
\* the filtered query of the lookup in progress has returned a value
PrimaryGaveValue == primary_result # NoResult

\* C29: within one lookup the client is called in a fixed order: not at all
\* on a cache hit; otherwise the filtered query once and first; the
\* dataset-by-code query and then the relationship accessor only when the
\* filtered query raised, never when it returned.
C29_ClientCallOrder ==
    /\ [](/\ Len(client_calls) <= 3
          /\ client_calls = SubSeq(CallOrder(relation), 1, Len(client_calls))
          /\ rel_pc = "primary" => client_calls = <<>>
          /\ PrimaryGaveValue =>
                (rel_pc = "returned" /\ Len(client_calls) = 1)
          /\ rel_pc \in {"fallback", "accessor"} => ~PrimaryGaveValue)
    /\ [][/\ (LookupStarts /\ GetNow(cache_key') # ListNone)
                => (rel_pc' = "returned" /\ client_calls' = <<>>)
          /\ (LookupStarts /\ GetNow(cache_key') = ListNone)
                => (rel_pc' = "primary" /\ client_calls' = <<>>)
          /\ rel_pc = "returned" => client_calls' = <<>>]_vars

\* a parents lookup whose filtered query raised has made all three calls
C29_Witness ==
    /\ rel_pc = "returned"
    /\ relation = "parents"
    /\ ~PrimaryGaveValue
    /\ client_calls = <<"get_datasets(withChildren)", "get_datasets(code)",
                        "get_parents">>


\* ------------------------------------------------------------------------
\* Cache keys of the two relations (SpecKey)
\* ------------------------------------------------------------------------
OtherRelation(rel) == IF rel = "children" THEN "parents" ELSE "children"
\* what _get_relationship_cache gives for the rel lookup of code c, before
\* and after the step
GetFor(rel, c) == GetNow(CacheKey(rel, c))
GetForAfter(rel, c) ==
    get_relationship_cache(relationship_cache', cache_timestamps',
                           CacheKey(rel, c), now')

\* C22: children and parents entries never collide: for all codes X and Y,
\* those with underscores or the words children/parents included, the keys
\* differ, and a put made by a lookup of one relation for X leaves what a
\* get gives the lookup of the other relation for Y as it was.
C22_RelationsNeverCollide ==
    /\ [](\A x \in KeyCodes, y \in KeyCodes :
            CacheKey("children", x) # CacheKey("parents", y))
    /\ [][put_log' # put_log =>
            \A y \in KeyCodes :
                GetForAfter(OtherRelation(relation), y)
                    = GetFor(OtherRelation(relation), y)]_vars

\* the children lookup of code parents_X has stored records while the
\* parents lookup of X holds the empty list, and that one is still served
C22_Witness ==
    LET x == <<"X">>
        px == RelationText("parents") \o <<"_", "X">>
    IN  /\ codes = {x, px}
        /\ CacheKey("children", px) \in DOMAIN relationship_cache
        /\ relationship_cache[CacheKey("children", px)] # <<>>
        /\ CacheKey("parents", x) \in DOMAIN relationship_cache
        /\ GetFor("parents", x) = ListOf(<<>>)
        /\ rel_pc = "returned"
        /\ relation = "children"
        /\ dataset_code = px
        /\ Len(client_calls) = 1


\* ------------------------------------------------------------------------
\* Reads of the cache leave it alone (SpecRel)
\* ------------------------------------------------------------------------
\* C27: _get_relationship_cache changes neither the stored values nor the
\* stored timestamps: the step that makes the cache check leaves both
\* dictionaries as they were, so that after any number of hits every entry
\* still carries the value and the time of its last put and is served
\* exactly until 15 minutes after that put.
C27_GetLeavesCacheAlone ==
    /\ [][LookupStarts =>
            UNCHANGED <<relationship_cache, cache_timestamps>>]_vars
    /\ [](\A k \in DOMAIN put_log :
            /\ k \in DOMAIN relationship_cache
            /\ k \in DOMAIN cache_timestamps
            /\ relationship_cache[k] = put_log[k].data
            /\ cache_timestamps[k] = put_log[k].at
            /\ (GetNow(k) = ListNone <=> Elapsed(k) >= Window))

\* a lookup has just been served from an entry put half a window earlier,
\* and the entry still carries the time of that put
C27_Witness ==
    /\ CacheHit
    /\ cache_key \in DOMAIN cache_timestamps
    /\ cache_key \in DOMAIN put_log
    /\ now = cache_timestamps[cache_key] + Window \div 2
    /\ cache_timestamps[cache_key] = put_log[cache_key].at


\* ------------------------------------------------------------------------
\* A put over an entry that is already stored (SpecRel)
\* ------------------------------------------------------------------------
\* the latest put on k replaced an entry that was stored before
PutOver(k) == ~put_log[k].prev.none

\* C23: a put on a key that already has an entry replaces both its value and
\* its timestamp: once a lookup has fetched an expired entry again, a get
\* within 15 minutes of that fetch is a hit that returns the new value, and
\* the stored time is the time of the new put.
C23_PutReplacesValueAndTime ==
    \A k \in DOMAIN put_log :
        PutOver(k) =>
            /\ relationship_cache[k] = put_log[k].data
            /\ cache_timestamps[k] = put_log[k].at
            /\ (Elapsed(k) < Window =>
                    /\ ~GetNow(k).none
                    /\ GetNow(k).list = put_log[k].data)

\* an entry expired, a lookup fetched other records for its key, and a later
\* lookup has been served those records from the cache
C23_Witness ==
    /\ CacheHit
    /\ cache_key \in DOMAIN put_log
    /\ PutOver(cache_key)
    /\ put_log[cache_key].prev.list # put_log[cache_key].data
    /\ put_log[cache_key].at >= Window
    /\ lookup_result = put_log[cache_key].data
    /\ lookup_result # <<>>

====
